---- MODULE Spec2Model ----
(***************************************************************************)
(* Model of create.py: the retrying HTTP fetcher (make_api_call), the      *)
(* result cache kept in queries.json (load_saved_queries, save_query,      *)
(* is_cache_valid, get_saved_query), the cached page search                *)
(* (search_semantic_scholar), the paginated fetcher (fetch_papers) and the *)
(* graph aggregator (generate_json), run by one request at a time.         *)
(***************************************************************************)
EXTENDS Integers, Sequences, FiniteSets, TLC

VARIABLES
    \* the environment and the inputs of the request
    corpus,            \* raw paper objects the upstream API may serve
    now,               \* datetime.now(), in days
    saved,             \* the "queries" list stored in queries.json
    api_key,           \* TRUE iff SEMANTIC_SCHOLAR_API_KEY is set
    queries,           \* generate_json argument: list of raw query strings
    total_papers,      \* generate_json argument
    title,             \* generate_json argument, a sequence of characters
    room,              \* generate_json argument: the room (session id) of the request
    emitted,           \* rooms socketio.emit has sent a log_message to
    \* control
    pc,
    \* generate_json locals
    query_idx, query, papers_dict, queries_data, queries_data_more,
    paper_data, links_data, authors_data, query_papers, paper_idx, result,
    \* fetch_papers locals
    all_papers, offset, request_count, data,
    \* search_semantic_scholar locals
    saved_result, response,
    \* make_api_call locals
    attempt,
    status,            \* response.status_code of the last GET (0: none yet)
    \* two requests inside save_query at the same time
    w_pc,              \* per request: "load", "write" or "done"
    w_loaded,          \* per request: the list load_saved_queries returned
    w_args,            \* per request: the arguments of save_query
    \* observations of the run (not read by the program)
    gets,              \* GETs issued by the current make_api_call
    sleeps,            \* time.sleep(2) calls of the current make_api_call
    from_cache,        \* the page of this iteration came from the cache
    missed,            \* some page lookup of this run returned absent
    live_gets,         \* some GET was issued in this run
    failed,            \* indices of the queries a page fetch of which used up its retries
    saved0,            \* the stored list when the request started
    obtained,          \* pages search_semantic_scholar returned to the current fetch_papers
    fetched            \* per processed query: what fetch_papers returned

vars == << corpus, now, saved, api_key, queries, total_papers, title, room, emitted, pc,
           query_idx, query, papers_dict, queries_data, queries_data_more,
           paper_data, links_data, authors_data, query_papers, paper_idx, result,
           all_papers, offset, request_count, data, saved_result, response,
           attempt, status, gets, sleeps, from_cache, missed, live_gets, failed,
           saved0, obtained, fetched, w_pc, w_loaded, w_args >>

env_vars == << corpus, api_key, queries, total_papers, title, room, saved0 >>
gj_vars == << query_idx, query, papers_dict, queries_data, queries_data_more,
              paper_data, links_data, authors_data, query_papers, paper_idx, result >>
fp_vars == << all_papers, offset, request_count, data >>
ss_vars == << saved_result, response >>
mac_vars == << attempt, status, gets, sleeps >>
race_vars == << w_pc, w_loaded, w_args >>

(***************************************************************************)
(* Bounds of the model.                                                    *)
(***************************************************************************)
MaxTotalPapers == 2    \* largest total_papers of a request
MaxPageLen == 2        \* longest data list of one API page
MaxInitCache == 2      \* most entries in queries.json when the request starts
MaxNow == 8            \* last day the clock reaches

(***************************************************************************)
(* Program constants.                                                      *)
(***************************************************************************)
CACHE_MAX_AGE_DAYS == 7
max_retries == 3
limit == 100

NowInit == CACHE_MAX_AGE_DAYS   \* the oldest stored entry is exactly at the max age
SavedDates == {0, 1}

(***************************************************************************)
(* Python values.  A JSON body is None, a falsy body ({} , [] , null) or a *)
(* non-empty dict whose "data" list (default []) is `data`.                *)
(***************************************************************************)
None == [kind |-> "None", data |-> << >>]
FalsyBody == [kind |-> "falsy", data |-> << >>]
Dict(d) == [kind |-> "dict", data |-> d]

Truthy(x) == x.kind = "dict"

\* the list is returned whole
SliceNot(s, n) == s

\* s[:n]
SliceTo(s, n) ==
    IF n >= 0
    THEN SubSeq(s, 1, IF n < Len(s) THEN n ELSE Len(s))
    ELSE SubSeq(s, 1, IF Len(s) + n > 0 THEN Len(s) + n ELSE 0)

\* str.strip() on the query strings of the model
strip(q) == IF q = " b " THEN "b" ELSE q

\* x in list
InList(x, s) == \E i \in 1..Len(s) : s[i] = x

\* defaultdict(list): d[k] and d[k].append(v)
DDGet(d, k) == IF k \in DOMAIN d THEN d[k] ELSE << >>
DDAppend(d, k, v) ==
    [x \in (DOMAIN d) \cup {k} |-> IF x = k THEN Append(DDGet(d, k), v) ELSE d[x]]

\* dict[k] = v
DictSet(d, k, v) == [x \in (DOMAIN d) \cup {k} |-> IF x = k THEN v ELSE d[x]]

(***************************************************************************)
(* Payloads of the upstream API.  A paper object has the fields create.py  *)
(* reads; a reference or citation has the same shape without the nested    *)
(* lists.  The version v distinguishes two payloads of one paperId.        *)
(***************************************************************************)
PaperIds == {"p1", "p2", "p3"}
TopIds == {"p1", "p2"}
Titles == <<"t1", "t2">>
Names == <<"n1", "n2">>

Author(a, v) == [authorId |-> a, name |-> Names[v]]

AuthorsOf(id, v) ==
    CASE id = "p1" -> << Author("a1", v) >>
      [] id = "p2" -> << Author("a1", v), Author("a2", v) >>
      [] OTHER     -> << >>

Sub(id, v) ==
    [paperId |-> id, title |-> Titles[v], url |-> <<"url", id>>,
     citationCount |-> v, publicationDate |-> <<"date", id>>,
     authors |-> AuthorsOf(id, v)]

Paper(id, v, refs, cites) ==
    [paperId |-> id, title |-> Titles[v], url |-> <<"url", id>>,
     citationCount |-> v, publicationDate |-> <<"date", id>>,
     authors |-> AuthorsOf(id, v), references |-> refs, citations |-> cites]

OtherTop(id) == IF id = "p1" THEN "p2" ELSE "p1"

\* a paper without links, and one that cites the other top paper and is cited
\* by p3 and by that other paper
Plain(id) == Paper(id, 1, << >>, << >>)
Linked(id) ==
    Paper(id, 1, << Sub(OtherTop(id), 2) >>, << Sub("p3", 2), Sub(OtherTop(id), 2) >>)

Corpus == {Plain("p1"), Linked("p2")}
SmallCorpus == {Plain("p1")}

\* the data lists a page can carry: up to MaxPageLen papers of the corpus
Pages(c) == UNION {[1..n -> c] : n \in 0..MaxPageLen}

\* the bodies a 200 answer can carry
Bodies(c) == {FalsyBody} \cup {Dict(p) : p \in Pages(c)}

(***************************************************************************)
(* The result cache.                                                       *)
(***************************************************************************)
Entry(q, l, o, r, d) ==
    [query |-> q, limit |-> l, offset |-> o, result |-> r, date_saved |-> d]

\* load_saved_queries on a readable store: the stored list
load_saved_queries(file) == file

\* an entry with the same key is overwritten by the new one
save_query_replace(file, q, l, o, r, t) ==
    LET qs == load_saved_queries(file)
        same(e) == e.query = q /\ e.limit = l /\ e.offset = o
    IN  IF \E i \in 1..Len(qs) : same(qs[i])
        THEN [i \in 1..Len(qs) |-> IF same(qs[i]) THEN Entry(q, l, o, r, t) ELSE qs[i]]
        ELSE Append(qs, Entry(q, l, o, r, t))

\* save_query: load, append one entry stamped with the current time, rewrite
save_query(file, q, l, o, r, t) ==
    Append(load_saved_queries(file), Entry(q, l, o, r, t))

\* an entry of exactly the max age still counts as valid
is_cache_valid_incl(entry, t) == t - entry.date_saved <= CACHE_MAX_AGE_DAYS

is_cache_valid(entry, t) == t - entry.date_saved < CACHE_MAX_AGE_DAYS

Matches(entry, q, l, o) ==
    entry.query = q /\ entry.limit = l /\ entry.offset = o

\* the first entry with the key that is still valid decides
get_saved_query_valid(file, q, l, o, t) ==
    LET qs == load_saved_queries(file)
        hits == {i \in 1..Len(qs) : Matches(qs[i], q, l, o) /\ is_cache_valid(qs[i], t)}
    IN  IF hits = {} THEN None
        ELSE qs[CHOOSE i \in hits : \A j \in hits : i <= j].result

\* get_saved_query: the first entry with the key decides
get_saved_query(file, q, l, o, t) ==
    LET qs == load_saved_queries(file)
        hits == {i \in 1..Len(qs) : Matches(qs[i], q, l, o)}
    IN  IF hits = {} THEN None
        ELSE LET first == CHOOSE i \in hits : \A j \in hits : i <= j
             IN  IF is_cache_valid(qs[first], t) THEN qs[first].result ELSE None

\* the cached result is never used
UseCachedNever(r) == FALSE

\* get_saved_query takes the branch of lines 111-116: the first entry with the
\* key is too old
cache_expired(file, q, l, o, t) ==
    LET qs == load_saved_queries(file)
        hits == {i \in 1..Len(qs) : Matches(qs[i], q, l, o)}
    IN  /\ hits # {}
        /\ LET first == CHOOSE i \in hits : \A j \in hits : i <= j
           IN  ~is_cache_valid(qs[first], t)

\* log_message(room, message): socketio.emit(..., room=room)
log_message(em, r) == em \cup {r}

\* headers of search_semantic_scholar, and headers.get("sid", "general")
Headers(key, sid) == [x_api_key |-> key, sid |-> sid]
HeaderSid(h) == IF "sid" \in DOMAIN h THEN h.sid ELSE "general"

\* the statuses of a GET that is not answered 200
ErrorStatuses == {404, 500}

\* `if saved_result:` in search_semantic_scholar
UseCached(r) == Truthy(r)

(***************************************************************************)
(* The tables of generate_json.  paper_data is a dict in insertion order:  *)
(* a sequence of records with distinct paperIds; assigning to a key that   *)
(* is present replaces the value in place.                                 *)
(***************************************************************************)
AuthorIds(authors) == [i \in 1..Len(authors) |-> authors[i].authorId]

\* the record lines 286-293, 302-309 and 319-326 build
PaperRecord(p) ==
    [paperId |-> p.paperId, title |-> p.title, url |-> p.url,
     citationCount |-> p.citationCount, publicationDate |-> p.publicationDate,
     authorIds |-> AuthorIds(p.authors)]

\* the record is appended whether or not the key is present
PutPaperAppend(pd, rec) == Append(pd, rec)

\* paper_data[rec["paperId"]] = rec
PutPaper(pd, rec) ==
    IF \E i \in 1..Len(pd) : pd[i].paperId = rec.paperId
    THEN [i \in 1..Len(pd) |-> IF pd[i].paperId = rec.paperId THEN rec ELSE pd[i]]
    ELSE Append(pd, rec)

\* the authors are not entered in the table
RegisterAuthorsNot(ad, authors) == ad

\* for author in authors: authors_data[author["authorId"]] = author["name"]
RegisterAuthors(ad, authors) ==
    LET ids == {authors[i].authorId : i \in 1..Len(authors)}
        last(a) == CHOOSE i \in 1..Len(authors) :
                      /\ authors[i].authorId = a
                      /\ \A j \in 1..Len(authors) : authors[j].authorId = a => j <= i
    IN  [a \in (DOMAIN ad) \cup ids |-> IF a \in ids THEN authors[last(a)].name ELSE ad[a]]

\* if id not in queries_data_more[query]: queries_data_more[query].append(id)
ExtendMore(qm, q, id) == IF InList(id, DDGet(qm, q)) THEN qm ELSE DDAppend(qm, q, id)

\* an id already in the list is not appended again
AppendTopOnce(d, q, id) == IF InList(id, DDGet(d, q)) THEN d ELSE DDAppend(d, q, id)

\* queries_data[query].append(paper_id)
AppendTop(d, q, id) == DDAppend(d, q, id)

\* the direct hit is left out of the extended list
AppendMoreNot(d, q, id) == d

\* queries_data_more[query].append(paper_id)
AppendMore(d, q, id) == DDAppend(d, q, id)

Edge(s, t) == [source |-> s, target |-> t]

\* one iteration of the loop over references (role "ref") or citations ("cite")
AddLink(st, paper, sub, q, role) ==
    [st EXCEPT
        !.links_data = Append(@, IF role = "ref"
                                 THEN Edge(paper.paperId, sub.paperId)
                                 ELSE Edge(sub.paperId, paper.paperId)),
        !.paper_data = PutPaper(@, PaperRecord(sub)),
        !.authors_data = RegisterAuthors(@, sub.authors),
        !.queries_data_more = ExtendMore(@, q, sub.paperId)]

RECURSIVE LinkLoop(_, _, _, _, _, _)
LinkLoop(st, paper, subs, i, q, role) ==
    IF i > Len(subs) THEN st
    ELSE LinkLoop(AddLink(st, paper, subs[i], q, role), paper, subs, i + 1, q, role)

\* the body of `if paper_id not in papers_dict:`
FirstSighting(st, paper, q) ==
    LET s1 == [st EXCEPT
                  !.papers_dict = DictSet(@, paper.paperId, paper),
                  !.paper_data = PutPaper(@, PaperRecord(paper)),
                  !.authors_data = RegisterAuthors(@, paper.authors)]
        s2 == LinkLoop(s1, paper, paper.references, 1, q, "ref")
    IN  LinkLoop(s2, paper, paper.citations, 1, q, "cite")

\* the paper is processed in full every time it is a direct hit
FoldPaperAlways(st, paper, q) ==
    LET s1 == FirstSighting(st, paper, q)
    IN  [s1 EXCEPT
            !.queries_data = AppendTop(@, q, paper.paperId),
            !.queries_data_more = AppendMore(@, q, paper.paperId)]

\* one iteration of `for paper in query_papers:`
FoldPaper(st, paper, q) ==
    LET s1 == IF paper.paperId \notin DOMAIN st.papers_dict
              THEN FirstSighting(st, paper, q) ELSE st
    IN  [s1 EXCEPT
            !.queries_data = AppendTop(@, q, paper.paperId),
            !.queries_data_more = AppendMore(@, q, paper.paperId)]

Tables ==
    [papers_dict |-> papers_dict, paper_data |-> paper_data,
     links_data |-> links_data, authors_data |-> authors_data,
     queries_data |-> queries_data, queries_data_more |-> queries_data_more]

\* title.replace(" ", "_")
ReplaceSpaces(t) == [i \in 1..Len(t) |-> IF t[i] = " " THEN "_" ELSE t[i]]

\* the document of lines 340-347
Document ==
    [kind |-> "document", title |-> ReplaceSpaces(title), papers |-> paper_data,
     links |-> links_data, queries |-> queries_data,
     queries_more |-> queries_data_more, authors |-> authors_data]

NoResult == [kind |-> "None"]
NotReturned == [kind |-> "running"]

(***************************************************************************)
(* Initial states: a request is about to call generate_json.               *)
(***************************************************************************)
\* requests of one query, of the same query twice and of two different queries
QueryLists == {<< "a" >>, << "a", "a" >>, << "a", " b " >>}

\* what earlier requests can have left in queries.json: entries of truthy
\* results under limit 100, in the order of their time stamps
StoredEntries(c) ==
    {Entry("a", limit, o, r, d) :
        o \in {0, limit}, r \in {Dict(<< >>)} \cup {Dict(<< x >>) : x \in c}, d \in SavedDates}
InitCaches(c) ==
    {f \in UNION {[1..n -> StoredEntries(c)] : n \in 0..MaxInitCache} :
        \A i \in 1..Len(f) : \A j \in 1..Len(f) :
            i <= j => f[i].date_saved <= f[j].date_saved}

InitLocals ==
    /\ pc = "start"
    /\ query_idx = 0 /\ query = ""
    /\ papers_dict = << >> /\ queries_data = << >> /\ queries_data_more = << >>
    /\ paper_data = << >> /\ links_data = << >> /\ authors_data = << >>
    /\ query_papers = << >> /\ paper_idx = 0 /\ result = NotReturned
    /\ all_papers = << >> /\ offset = 0 /\ request_count = 0 /\ data = None
    /\ saved_result = None /\ response = None
    /\ attempt = 0 /\ status = 0 /\ gets = 0 /\ sleeps = 0
    /\ room = "sid1" /\ emitted = {}
    /\ from_cache = FALSE /\ missed = FALSE /\ live_gets = FALSE /\ failed = {}
    /\ saved0 = saved /\ obtained = << >> /\ fetched = << >>

\* no request is inside save_query on its own
NoRace == w_pc = << >> /\ w_loaded = << >> /\ w_args = << >>

\* a request on an empty store, the API serving the whole corpus, the clock
\* one day before its last
Init ==
    /\ corpus = Corpus
    /\ now = MaxNow - 1
    /\ saved = << >>
    /\ api_key \in BOOLEAN
    /\ queries \in QueryLists
    /\ total_papers \in 0..MaxTotalPapers
    /\ title = << "m", "y", " ", "g" >>
    /\ InitLocals
    /\ NoRace

\* a request for one query on a store earlier requests have filled
InitCache ==
    /\ corpus = SmallCorpus
    /\ now = NowInit
    /\ saved \in InitCaches(SmallCorpus)
    /\ api_key \in BOOLEAN
    /\ queries \in {<< "a" >>}
    /\ total_papers \in -1..MaxTotalPapers
    /\ title = << "m", "y", " ", "g" >>
    /\ InitLocals
    /\ NoRace

(***************************************************************************)
(* The clock: days pass while the server waits for the request.            *)
(***************************************************************************)
Tick ==
    /\ pc = "start"
    /\ now < MaxNow
    /\ now' = now + 1
    /\ UNCHANGED << env_vars, race_vars, emitted, failed, saved, pc, gj_vars, fp_vars, ss_vars, mac_vars,
                    from_cache, missed, live_gets, obtained, fetched >>

(***************************************************************************)
(* generate_json                                                           *)
(***************************************************************************)
\* the missing credential is reported and the aggregation goes on all the same
GjNoKeyRuns ==
    /\ pc = "start"
    /\ ~api_key
    /\ papers_dict' = << >> /\ queries_data' = << >> /\ queries_data_more' = << >>
    /\ paper_data' = << >> /\ links_data' = << >> /\ authors_data' = << >>
    /\ query_idx' = 1
    /\ pc' = "gj_loop"
    /\ emitted' = log_message(emitted, room)
    /\ UNCHANGED << env_vars, race_vars, failed, now, saved, query, query_papers, paper_idx, result,
                    fp_vars, ss_vars, mac_vars,
                    from_cache, missed, live_gets, obtained, fetched >>

\* lines 258-266: no credential
GjNoKey ==
    /\ pc = "start"
    /\ ~api_key
    /\ result' = NoResult
    /\ pc' = "done"
    /\ emitted' = log_message(emitted, room)
    /\ UNCHANGED << env_vars, race_vars, failed, now, saved, query_idx, query, papers_dict, queries_data,
                    queries_data_more, paper_data, links_data, authors_data,
                    query_papers, paper_idx, fp_vars, ss_vars, mac_vars,
                    from_cache, missed, live_gets, obtained, fetched >>

\* lines 268-273: the tables are created empty
GjStart ==
    /\ pc = "start"
    /\ api_key
    /\ papers_dict' = << >> /\ queries_data' = << >> /\ queries_data_more' = << >>
    /\ paper_data' = << >> /\ links_data' = << >> /\ authors_data' = << >>
    /\ query_idx' = 1
    /\ pc' = "gj_loop"
    /\ UNCHANGED << env_vars, race_vars, emitted, failed, now, saved, query, query_papers, paper_idx, result,
                    fp_vars, ss_vars, mac_vars,
                    from_cache, missed, live_gets, obtained, fetched >>

\* lines 275-281 and 216-219: the next query is stripped and fetch_papers entered
GjBeginQuery ==
    /\ pc = "gj_loop"
    /\ query_idx <= Len(queries)
    /\ query' = strip(queries[query_idx])
    /\ all_papers' = << >> /\ offset' = 0 /\ request_count' = 0
    /\ obtained' = << >>
    /\ pc' = "fp_loop"
    /\ emitted' = log_message(emitted, room)
    /\ UNCHANGED << env_vars, race_vars, failed, now, saved, query_idx, papers_dict, queries_data,
                    queries_data_more, paper_data, links_data, authors_data,
                    query_papers, paper_idx, result, data, ss_vars, mac_vars,
                    from_cache, missed, live_gets, fetched >>

\* lines 335-348: all queries processed, the document is returned
GjFinish ==
    /\ pc = "gj_loop"
    /\ query_idx > Len(queries)
    /\ result' = Document
    /\ pc' = "done"
    /\ emitted' = log_message(emitted, room)
    /\ UNCHANGED << env_vars, race_vars, failed, now, saved, query_idx, query, papers_dict, queries_data,
                    queries_data_more, paper_data, links_data, authors_data,
                    query_papers, paper_idx, fp_vars, ss_vars, mac_vars,
                    from_cache, missed, live_gets, obtained, fetched >>

\* lines 282-333: one paper of query_papers is folded into the tables
GjFoldPaper ==
    /\ pc = "gj_fold"
    /\ paper_idx <= Len(query_papers)
    /\ LET st == FoldPaper(Tables, query_papers[paper_idx], query)
       IN  /\ papers_dict' = st.papers_dict
           /\ paper_data' = st.paper_data
           /\ links_data' = st.links_data
           /\ authors_data' = st.authors_data
           /\ queries_data' = st.queries_data
           /\ queries_data_more' = st.queries_data_more
    /\ paper_idx' = paper_idx + 1
    /\ UNCHANGED << env_vars, race_vars, emitted, failed, now, saved, pc, query_idx, query, query_papers, result,
                    fp_vars, ss_vars, mac_vars,
                    from_cache, missed, live_gets, obtained, fetched >>

\* line 275: the loop over query_papers is over, on to the next query
GjQueryDone ==
    /\ pc = "gj_fold"
    /\ paper_idx > Len(query_papers)
    /\ query_idx' = query_idx + 1
    /\ pc' = "gj_loop"
    /\ UNCHANGED << env_vars, race_vars, emitted, failed, now, saved, query, papers_dict, queries_data,
                    queries_data_more, paper_data, links_data, authors_data,
                    query_papers, paper_idx, result, fp_vars, ss_vars, mac_vars,
                    from_cache, missed, live_gets, obtained, fetched >>

(***************************************************************************)
(* fetch_papers                                                            *)
(***************************************************************************)
\* line 221: the loop condition holds, search_semantic_scholar is called
FpCall ==
    /\ pc = "fp_loop"
    /\ Len(all_papers) < total_papers
    /\ pc' = "ss_lookup"
    /\ UNCHANGED << env_vars, race_vars, emitted, failed, now, saved, gj_vars, fp_vars, ss_vars, mac_vars,
                    from_cache, missed, live_gets, obtained, fetched >>

\* line 221: the loop condition fails
FpExit ==
    /\ pc = "fp_loop"
    /\ ~(Len(all_papers) < total_papers)
    /\ pc' = "fp_return"
    /\ UNCHANGED << env_vars, race_vars, emitted, failed, now, saved, gj_vars, fp_vars, ss_vars, mac_vars,
                    from_cache, missed, live_gets, obtained, fetched >>

\* lines 225-236: a page with papers is appended and the offset advanced
FpExtend ==
    /\ pc = "fp_data"
    /\ Truthy(data) /\ data.data # << >>
    /\ request_count' = request_count + 1
    /\ all_papers' = all_papers \o data.data
    /\ offset' = offset + limit
    /\ pc' = "fp_sleep"
    /\ emitted' = log_message(emitted, room)
    /\ UNCHANGED << env_vars, race_vars, failed, now, saved, gj_vars, data, ss_vars, mac_vars,
                    from_cache, missed, live_gets, obtained, fetched >>

\* a page with an empty data list does not end the loop
FpBreakOnNoneOnly ==
    /\ pc = "fp_data"
    /\ ~(Truthy(data) /\ data.data # << >>)
    /\ request_count' = request_count + 1
    /\ IF Truthy(data)
       THEN /\ offset' = offset + limit
            /\ pc' = "fp_sleep"
       ELSE /\ offset' = offset
            /\ pc' = "fp_return"
    /\ UNCHANGED << env_vars, race_vars, emitted, failed, now, saved, gj_vars, all_papers, data, ss_vars,
                    mac_vars, from_cache, missed, live_gets, obtained, fetched >>

\* lines 225-230 and 238-239: no data, or an empty data list: break
FpBreak ==
    /\ pc = "fp_data"
    /\ ~(Truthy(data) /\ data.data # << >>)
    /\ request_count' = request_count + 1
    /\ pc' = "fp_return"
    /\ UNCHANGED << env_vars, race_vars, emitted, failed, now, saved, gj_vars, all_papers, offset, data, ss_vars,
                    mac_vars, from_cache, missed, live_gets, obtained, fetched >>

\* line 237: time.sleep(1), then back to the loop condition
FpSleep ==
    /\ pc = "fp_sleep"
    /\ pc' = "fp_loop"
    /\ UNCHANGED << env_vars, race_vars, emitted, failed, now, saved, gj_vars, fp_vars, ss_vars, mac_vars,
                    from_cache, missed, live_gets, obtained, fetched >>

\* lines 241-242 and 281: all_papers[:total_papers] becomes query_papers
FpReturn ==
    /\ pc = "fp_return"
    /\ query_papers' = SliceTo(all_papers, total_papers)
    /\ paper_idx' = 1
    /\ fetched' = Append(fetched, [query |-> query, papers |-> query_papers'])
    /\ all_papers' = << >> /\ offset' = 0 /\ request_count' = 0 /\ data' = None
    /\ saved_result' = None /\ response' = None
    /\ pc' = "gj_fold"
    /\ emitted' = log_message(emitted, room)
    /\ UNCHANGED << env_vars, race_vars, failed, now, saved, query_idx, query, papers_dict, queries_data,
                    queries_data_more, paper_data, links_data, authors_data, result,
                    mac_vars, from_cache, missed, live_gets, obtained >>

(***************************************************************************)
(* search_semantic_scholar                                                 *)
(***************************************************************************)
Page(o, b) == [offset |-> o, body |-> b]

\* lines 177-182: the lookup gives a result that is used
SsCacheHit ==
    /\ pc = "ss_lookup"
    /\ saved_result' = get_saved_query(saved, query, limit, offset, now)
    /\ UseCached(saved_result')
    /\ data' = saved_result'
    /\ from_cache' = TRUE
    /\ missed' = (missed \/ saved_result' = None)
    /\ obtained' = Append(obtained, Page(offset, data'))
    /\ pc' = "fp_data"
    /\ emitted' = log_message(emitted, room)
    /\ UNCHANGED << env_vars, race_vars, failed, now, saved, gj_vars, all_papers, offset, request_count,
                    response, mac_vars, live_gets, fetched >>

\* lines 177-178 and 184-192: no usable result, make_api_call is entered
SsCacheMiss ==
    /\ pc = "ss_lookup"
    /\ saved_result' = get_saved_query(saved, query, limit, offset, now)
    /\ ~UseCached(saved_result')
    /\ from_cache' = FALSE
    /\ missed' = (missed \/ saved_result' = None)
    /\ attempt' = 0 /\ gets' = 0 /\ sleeps' = 0
    /\ pc' = "mac_get"
    /\ emitted' = IF cache_expired(saved, query, limit, offset, now)
                  THEN log_message(emitted, "general") ELSE emitted
    /\ status' = 0
    /\ UNCHANGED << env_vars, race_vars, failed, now, saved, gj_vars, fp_vars, response,
                    live_gets, obtained, fetched >>

\* lines 194-197: a truthy response is stored and returned
SsStore ==
    /\ pc = "ss_after"
    /\ Truthy(response)
    /\ saved' = save_query(saved, query, limit, offset, response, now)
    /\ data' = response
    /\ obtained' = Append(obtained, Page(offset, data'))
    /\ attempt' = 0 /\ gets' = 0 /\ sleeps' = 0
    /\ pc' = "fp_data"
    /\ status' = 0
    /\ UNCHANGED << env_vars, race_vars, emitted, failed, now, gj_vars, all_papers, offset, request_count,
                    ss_vars, from_cache, missed, live_gets, fetched >>

\* lines 198-199: no response, None is returned
SsNone ==
    /\ pc = "ss_after"
    /\ ~Truthy(response)
    /\ data' = None
    /\ obtained' = Append(obtained, Page(offset, data'))
    /\ attempt' = 0 /\ gets' = 0 /\ sleeps' = 0
    /\ pc' = "fp_data"
    /\ status' = 0
    /\ UNCHANGED << env_vars, race_vars, emitted, failed, now, saved, gj_vars, all_papers, offset, request_count,
                    ss_vars, from_cache, missed, live_gets, fetched >>

(***************************************************************************)
(* make_api_call                                                           *)
(***************************************************************************)
\* lines 144-147: the GET answers 200, its body is returned
MacGetOk ==
    /\ pc = "mac_get"
    /\ attempt < max_retries
    /\ \E body \in Bodies(corpus) : response' = body
    /\ gets' = gets + 1
    /\ live_gets' = TRUE
    /\ pc' = "ss_after"
    /\ status' = 200
    /\ UNCHANGED << env_vars, race_vars, emitted, failed, now, saved, gj_vars, fp_vars, saved_result, attempt,
                    sleeps, from_cache, missed, obtained, fetched >>

\* a 404 is not worth another attempt: None is returned at once
MacGetFailNoRetry4xx ==
    /\ pc = "mac_get"
    /\ attempt < max_retries
    /\ gets' = gets + 1
    /\ live_gets' = TRUE
    /\ emitted' = log_message(emitted, HeaderSid(Headers(api_key, room)))
    /\ status' \in ErrorStatuses
    /\ IF status' = 404
       THEN /\ response' = None /\ pc' = "ss_after"
            /\ UNCHANGED << attempt, sleeps >>
       ELSE /\ sleeps' = sleeps + 1 /\ attempt' = attempt + 1
            /\ UNCHANGED << response, pc >>
    /\ UNCHANGED << env_vars, race_vars, failed, now, saved, gj_vars, fp_vars, saved_result,
                    from_cache, missed, obtained, fetched >>

\* lines 144-153: the GET answers another status: message, time.sleep(2), next attempt
MacGetFail ==
    /\ pc = "mac_get"
    /\ attempt < max_retries
    /\ gets' = gets + 1
    /\ live_gets' = TRUE
    /\ sleeps' = sleeps + 1
    /\ attempt' = attempt + 1
    /\ emitted' = log_message(emitted, HeaderSid(Headers(api_key, room)))
    /\ status' \in ErrorStatuses
    /\ UNCHANGED << env_vars, race_vars, failed, now, saved, pc, gj_vars, fp_vars, ss_vars,
                    from_cache, missed, obtained, fetched >>

\* the used-up attempts end the whole request with None
MacExhaustedRaises ==
    /\ pc = "mac_get"
    /\ ~(attempt < max_retries)
    /\ response' = None
    /\ result' = NoResult
    /\ pc' = "done"
    /\ emitted' = log_message(emitted, HeaderSid(Headers(api_key, room)))
    /\ failed' = failed \cup {query_idx}
    /\ UNCHANGED << env_vars, race_vars, now, saved, query_idx, query, papers_dict, queries_data,
                    queries_data_more, paper_data, links_data, authors_data,
                    query_papers, paper_idx, fp_vars, saved_result, mac_vars,
                    from_cache, missed, live_gets, obtained, fetched >>

\* lines 155-159: the attempts are used up, None is returned
MacExhausted ==
    /\ pc = "mac_get"
    /\ ~(attempt < max_retries)
    /\ response' = None
    /\ pc' = "ss_after"
    /\ emitted' = log_message(emitted, HeaderSid(Headers(api_key, room)))
    /\ failed' = failed \cup {query_idx}
    /\ UNCHANGED << env_vars, race_vars, now, saved, gj_vars, fp_vars, saved_result, mac_vars,
                    from_cache, missed, live_gets, obtained, fetched >>

(***************************************************************************)
(* save_query run by two requests at once on the one queries.json: each    *)
(* loads the list, appends its entry in memory and rewrites the file.      *)
(***************************************************************************)
Procs == {1, 2}

\* the pages the two requests are about to store
StoreArgs ==
    [query : {"a", "b"}, offset : {0}, result : {Dict(<< >>), Dict(<< Plain("p1") >>)}]

\* lines 64-70: the entry a request builds
NewEntry(p) == Entry(w_args[p].query, limit, w_args[p].offset, w_args[p].result, now)

\* both requests have got their page and enter save_query
InitRace ==
    /\ corpus = SmallCorpus
    /\ now = NowInit
    /\ saved \in InitCaches(SmallCorpus)
    /\ api_key = TRUE
    /\ queries = << "a" >>
    /\ total_papers = 1
    /\ title = << "m", "y", " ", "g" >>
    /\ InitLocals
    /\ w_pc = [p \in Procs |-> "load"]
    /\ w_loaded = [p \in Procs |-> << >>]
    /\ w_args \in [Procs -> StoreArgs]

\* line 63: queries = load_saved_queries()
WLoad(p) ==
    /\ w_pc[p] = "load"
    /\ w_loaded' = [w_loaded EXCEPT ![p] = load_saved_queries(saved)]
    /\ w_pc' = [w_pc EXCEPT ![p] = "write"]
    /\ UNCHANGED << env_vars, emitted, failed, now, saved, pc, gj_vars, fp_vars, ss_vars,
                    mac_vars, from_cache, missed, live_gets, obtained, fetched, w_args >>

\* the list is read again at the time of the rewrite
WWriteFresh(p) ==
    /\ w_pc[p] = "write"
    /\ saved' = Append(load_saved_queries(saved), NewEntry(p))
    /\ w_pc' = [w_pc EXCEPT ![p] = "done"]
    /\ UNCHANGED << env_vars, emitted, failed, now, pc, gj_vars, fp_vars, ss_vars,
                    mac_vars, from_cache, missed, live_gets, obtained, fetched,
                    w_loaded, w_args >>

\* lines 64-73: the entry is appended to the loaded list, the file rewritten
WWrite(p) ==
    /\ w_pc[p] = "write"
    /\ saved' = Append(w_loaded[p], NewEntry(p))
    /\ w_pc' = [w_pc EXCEPT ![p] = "done"]
    /\ UNCHANGED << env_vars, emitted, failed, now, pc, gj_vars, fp_vars, ss_vars,
                    mac_vars, from_cache, missed, live_gets, obtained, fetched,
                    w_loaded, w_args >>

(***************************************************************************)
(* Specifications                                                          *)
(***************************************************************************)
Next ==
    \/ Tick
    \/ GjNoKey \/ GjStart \/ GjBeginQuery \/ GjFinish \/ GjFoldPaper \/ GjQueryDone
    \/ FpCall \/ FpExit \/ FpExtend \/ FpBreak \/ FpSleep \/ FpReturn
    \/ SsCacheHit \/ SsCacheMiss \/ SsStore \/ SsNone
    \/ MacGetOk \/ MacGetFail \/ MacExhausted

Spec == Init /\ [][Next]_vars

SpecCache == InitCache /\ [][Next]_vars

\* the request is one thread of control: its next step is taken in the end
SpecLive == InitCache /\ [][Next]_vars /\ WF_vars(Next)

NextRace == \E p \in Procs : WLoad(p) \/ WWrite(p)

SpecRace == InitRace /\ [][NextRace]_vars


(***************************************************************************)
(* Vocabulary of the properties.                                           *)
(***************************************************************************)
IdsOf(ps) == [i \in 1..Len(ps) |-> ps[i].paperId]
IdSet(ps) == {ps[i].paperId : i \in 1..Len(ps)}
Count(s, x) == Cardinality({i \in 1..Len(s) : s[i] = x})
Returned == pc = "done" /\ result.kind = "document"
Queried == {strip(queries[i]) : i \in 1..Len(queries)}

\* C1: when every GET answers a non-200 status, make_api_call returns None
\* after exactly 3 GETs and exactly 2 sleeps.
C1_ThreeGetsTwoSleeps ==
    (pc = "ss_after" /\ response = None) => (gets = 3 /\ sleeps = 2)

\* C2: fetch_papers does not sleep on an iteration whose page came from the cache.
C2_NoSleepAfterCacheHit ==
    pc = "fp_sleep" => ~from_cache

\* C3: a GET for (query, 100, offset) is issued only after the lookup for that
\* key returned absent; a run whose lookups all hit issues no GET and stores nothing.
C3_GetOnlyAfterMiss ==
    /\ pc = "mac_get" =>
          /\ saved_result = None
          /\ get_saved_query(saved, query, limit, offset, now) = None
    /\ live_gets => missed
    /\ ~missed => saved = saved0

\* a finished run that served a non-empty page from the cache and never missed
C3_Witness ==
    /\ Returned /\ ~missed /\ ~live_gets
    /\ Len(fetched) = 1 /\ fetched[1].papers # << >>
    /\ saved = saved0

\* every record of the paper table is the same after the step
RecordsKept ==
    \A i \in 1..Len(paper_data) :
        i <= Len(paper_data') /\ paper_data'[i] = paper_data[i]

\* C4: once a paperId has a record in the paper table, every later sighting
\* of that paperId leaves the record unchanged.
C4_FirstWriteWins == [][RecordsKept]_vars

\* the papers fetch_papers returned, over all queries processed so far
RECURSIVE FetchedCount(_)
FetchedCount(n) == IF n = 0 THEN 0 ELSE FetchedCount(n - 1) + Len(fetched[n].papers)

DirectIds == UNION {IdSet(fetched[i].papers) : i \in 1..Len(fetched)}
LinkIdsOf(p) == IdSet(p.references) \cup IdSet(p.citations)
LinkIds ==
    UNION {UNION {LinkIdsOf(fetched[i].papers[j]) : j \in 1..Len(fetched[i].papers)} :
             i \in 1..Len(fetched)}

\* no paperId is a direct hit of two queries
NoOverlapAcrossQueries ==
    \A i \in 1..Len(fetched) : \A j \in 1..Len(fetched) :
        i # j => IdSet(fetched[i].papers) \cap IdSet(fetched[j].papers) = {}

\* no paperId is a direct hit twice, in one query or in two
HitsDistinct == FetchedCount(Len(fetched)) = Cardinality(DirectIds)

\* C5 as stated: without overlap across queries the papers list is as long as
\* the sum of the fetched counts.
C5_LengthIsSum ==
    (Returned /\ NoOverlapAcrossQueries) =>
        Len(result.papers) = FetchedCount(Len(fetched))

\* C5 amended: when the fetched direct hits are pairwise distinct, the papers
\* list is as long as the sum of the fetched counts plus the number of distinct
\* reference and citation ids that are no direct hit.
C5_LengthIsSumPlusLinked ==
    (Returned /\ HitsDistinct) =>
        Len(result.papers) =
            FetchedCount(Len(fetched)) + Cardinality(LinkIds \ DirectIds)

\* two queries, one plain hit and one linked hit: three papers for two hits
C5_Witness ==
    /\ Returned /\ HitsDistinct
    /\ Len(fetched) = 2 /\ fetched[1].query # fetched[2].query
    /\ FetchedCount(2) = 2
    /\ LinkIds \ DirectIds # {} /\ LinkIds \cap DirectIds # {}
    /\ Len(result.papers) = 3

\* X is a direct hit of query q
DirectHit(q, x) ==
    \E i \in 1..Len(fetched) : fetched[i].query = q /\ x \in IdSet(fetched[i].papers)

\* the j-th paper of the i-th fetch is the first sighting of its id as a direct hit
Processed(i, j) ==
    LET id == fetched[i].papers[j].paperId
    IN  /\ \A k \in 1..(j - 1) : fetched[i].papers[k].paperId # id
        /\ \A h \in 1..(i - 1) : id \notin IdSet(fetched[h].papers)

\* X is a reference of a paper processed under query q
RefUnder(q, x) ==
    \E i \in 1..Len(fetched) : \E j \in 1..Len(fetched[i].papers) :
        /\ fetched[i].query = q
        /\ Processed(i, j)
        /\ x \in IdSet(fetched[i].papers[j].references)

\* C6 as stated: X a direct hit of A and a reference under B is at most once
\* in queries_more[B] and at least once in queries_more[A], for any A, B, X.
C6_MoreOnceAnyQuery ==
    Returned =>
        \A a \in Queried : \A b \in Queried : \A x \in PaperIds :
            (DirectHit(a, x) /\ RefUnder(b, x)) =>
                /\ Count(DDGet(result.queries_more, b), x) <= 1
                /\ Count(DDGet(result.queries_more, a), x) >= 1

\* C6 amended: the same, for X that is not also a direct hit of B.
C6_MoreOnceOtherQuery ==
    Returned =>
        \A a \in Queried : \A b \in Queried : \A x \in PaperIds :
            (DirectHit(a, x) /\ RefUnder(b, x) /\ ~DirectHit(b, x)) =>
                /\ Count(DDGet(result.queries_more, b), x) <= 1
                /\ Count(DDGet(result.queries_more, a), x) >= 1

\* X is a direct hit of A only and a reference and a citation under B
C6_Witness ==
    /\ Returned
    /\ \E a \in Queried : \E b \in Queried : \E x \in PaperIds :
          /\ DirectHit(a, x) /\ RefUnder(b, x) /\ ~DirectHit(b, x)
          /\ Count(DDGet(result.queries_more, b), x) = 1
          /\ Count(DDGet(result.queries_more, a), x) = 1
          /\ Count(result.links, Edge(x, OtherTop(x))) = 1

\* a page that lets the loop of fetch_papers go on: present, with a non-empty data list
GoodPage(pg) == Truthy(pg.body) /\ pg.body.data # << >>

\* how many pages were obtained before the first absent or empty one
GoodPrefix ==
    CHOOSE k \in 0..Len(obtained) :
        /\ \A i \in 1..k : GoodPage(obtained[i])
        /\ k < Len(obtained) => ~GoodPage(obtained[k + 1])

\* the data lists of the first k obtained pages, concatenated
RECURSIVE PagesConcat(_)
PagesConcat(k) == IF k = 0 THEN << >> ELSE PagesConcat(k - 1) \o obtained[k].body.data

FirstRecords(s, n) == [i \in 1..(IF n < Len(s) THEN n ELSE Len(s)) |-> s[i]]

\* C7: fetch_papers returns the first total_papers records of the pages
\* obtained at offsets 0, 100, 200, ... up to the first absent or empty page;
\* never more than total_papers, and exactly total_papers when enough were obtained.
C7_FirstTotalOfPages ==
    pc = "gj_fold" =>
        LET cat == PagesConcat(GoodPrefix)
        IN  /\ \A i \in 1..Len(obtained) : obtained[i].offset = limit * (i - 1)
            /\ \A i \in 1..Len(obtained) : Len(PagesConcat(i - 1)) < total_papers
            /\ GoodPrefix >= Len(obtained) - 1
            /\ query_papers = FirstRecords(cat, total_papers)
            /\ Len(query_papers) <= total_papers
            /\ Len(cat) >= total_papers => Len(query_papers) = total_papers

\* two pages, at offsets 0 and 100, hold more than total_papers records
C7_Witness ==
    /\ pc = "gj_fold"
    /\ Len(obtained) = 2
    /\ obtained[2].offset = limit
    /\ Len(PagesConcat(2)) > total_papers
    /\ Len(query_papers) = total_papers

\* the lookup about to be made finds an entry of its key that is too old
ExpiredEntryForKey ==
    \E i \in 1..Len(saved) :
        /\ Matches(saved[i], query, limit, offset)
        /\ now - saved[i].date_saved >= CACHE_MAX_AGE_DAYS

\* a lookup of such a key returns None and leaves the stored list as it was
ExpiredLookupStep ==
    (pc = "ss_lookup" /\ pc' # "ss_lookup" /\ ExpiredEntryForKey) =>
        (saved_result' = None /\ saved' = saved /\ pc' = "mac_get")

\* C8: a lookup for the key of an entry at least 7 days old returns absent
\* and leaves the stored entries unchanged.
C8_ExpiredIsAbsentAndKept == [][ExpiredLookupStep]_vars

\* the lookup returned None although an entry for the key is stored, exactly 7 days old
C8_Witness ==
    /\ pc = "mac_get" /\ attempt = 0 /\ gets = 0
    /\ saved_result = None
    /\ saved = saved0
    /\ \E i \in 1..Len(saved) :
          /\ Matches(saved[i], query, limit, offset)
          /\ now - saved[i].date_saved = CACHE_MAX_AGE_DAYS

\* every paperId seen in the run, in any role
SeenIds == DirectIds \cup LinkIds

\* C9: every paperId seen is exactly once in the papers list, and a direct hit
\* of a query is in that query's top-level list.
C9_OneRecordPerId ==
    Returned =>
        /\ \A x \in SeenIds :
              Cardinality({i \in 1..Len(result.papers) : result.papers[i].paperId = x}) = 1
        /\ \A i \in 1..Len(result.papers) : result.papers[i].paperId \in SeenIds
        /\ \A q \in Queried : \A x \in PaperIds :
              DirectHit(q, x) => InList(x, DDGet(result.queries, q))

\* one id is a direct hit of two different queries, and a reference as well
C9_Witness ==
    /\ Returned
    /\ Len(fetched) = 2 /\ fetched[1].query # fetched[2].query
    /\ \E x \in PaperIds :
          /\ DirectHit(fetched[1].query, x) /\ DirectHit(fetched[2].query, x)
          /\ x \in LinkIds
          /\ Count(IdsOf(result.papers), x) = 1

\* the ids fetch_papers returned for query q, over the first n fetches, in order
RECURSIVE FetchedFor(_, _)
FetchedFor(q, n) ==
    IF n = 0 THEN << >>
    ELSE FetchedFor(q, n - 1)
            \o (IF fetched[n].query = q THEN IdsOf(fetched[n].papers) ELSE << >>)

\* C10: queries[q] is the sequence of paperIds fetch_papers returned for q, in
\* fetch order, ids captured by an earlier query included.
C10_TopListIsFetchOrder ==
    Returned =>
        /\ \A q \in Queried : DDGet(result.queries, q) = FetchedFor(q, Len(fetched))
        /\ DOMAIN result.queries \subseteq Queried

\* the second query returns, twice, an id the first query had captured
C10_Witness ==
    /\ Returned
    /\ Len(fetched) = 2 /\ fetched[1].query # fetched[2].query
    /\ \E x \in PaperIds :
          /\ DirectHit(fetched[1].query, x)
          /\ Count(IdsOf(fetched[2].papers), x) = 2
          /\ Count(result.queries[fetched[2].query], x) = 2

\* C11: without the API credential generate_json returns None after one
\* progress message to the room of the request: no GET, no cache lookup, no
\* cache store and no table built, whatever the store holds.
C11_NoKeyNothingDone ==
    ~api_key =>
        /\ pc \in {"start", "done"}
        /\ ~live_gets /\ ~missed /\ ~from_cache
        /\ obtained = << >> /\ fetched = << >>
        /\ saved = saved0
        /\ paper_data = << >> /\ links_data = << >> /\ authors_data = << >>
        /\ queries_data = << >> /\ queries_data_more = << >>
        /\ pc = "start" => (result = NotReturned /\ emitted = {})
        /\ pc = "done" => (result = NoResult /\ emitted = {room})

\* the request asked for papers the store holds, and was turned down
C11_Witness ==
    /\ pc = "done" /\ ~api_key
    /\ result = NoResult /\ emitted = {room}
    /\ total_papers >= 1
    /\ get_saved_query(saved, strip(queries[1]), limit, 0, now) # None

\* C12: with the credential set, a page fetch that used up its retries does not
\* end the run: fetch_papers returns what the pages before it gave, every query
\* of the list is processed in order, and the result is the document, holding
\* the papers of the failing query too.
C12_FailureIsSwallowed ==
    /\ (pc = "gj_fold" /\ query_idx \in failed) =>
          /\ obtained[Len(obtained)].body = None
          /\ \A i \in 1..(Len(obtained) - 1) : GoodPage(obtained[i])
          /\ query_papers = FirstRecords(PagesConcat(Len(obtained) - 1), total_papers)
    /\ failed \subseteq 1..Len(fetched) \cup {query_idx}
    /\ \A i \in 1..Len(fetched) : fetched[i].query = strip(queries[i])
    /\ (pc = "done" /\ api_key) =>
          /\ result.kind = "document"
          /\ Len(fetched) = Len(queries)
          /\ \A i \in 1..Len(fetched) :
                /\ IdSet(fetched[i].papers) \subseteq IdSet(result.papers)
                /\ \A j \in 1..Len(fetched[i].papers) :
                      InList(fetched[i].papers[j].paperId,
                             DDGet(result.queries, fetched[i].query))

\* the second page of the first query failed after a first page with a paper;
\* the second query went through
C12_Witness ==
    /\ Returned
    /\ Len(queries) = 2
    /\ failed = {1}
    /\ fetched[1].papers # << >>
    /\ fetched[2].papers # << >>
    /\ fetched[2].query # fetched[1].query
    /\ IdSet(fetched[1].papers) \subseteq IdSet(result.papers)

\* C13: every progress message of a request is sent to the room of that
\* request, never to another or a shared one.
C13_MessagesToOwnRoom == emitted \subseteq {room}

\* a step leaves the stored list alone, or it is the store of
\* search_semantic_scholar and appends one entry for the page just fetched
StoreStep ==
    \/ saved' = saved
    \/ /\ pc = "ss_after" /\ pc' = "fp_data"
       /\ Len(saved') = Len(saved) + 1
       /\ \A i \in 1..Len(saved) : saved'[i] = saved[i]
       /\ saved'[Len(saved')] = Entry(query, limit, offset, response, now)

\* C14: within one request on a readable store every store appends exactly one
\* entry, also when an entry with the same key is stored already, and no
\* lookup or store alters, reorders or removes an earlier entry.
C14_StoreAppendsOne == [][StoreStep]_vars

\* a page was stored while an older entry with the same key is still there
C14_Witness ==
    /\ Len(saved) = Len(saved0) + 1
    /\ SubSeq(saved, 1, Len(saved0)) = saved0
    /\ \E i \in 1..Len(saved0) :
          /\ saved[i].query = saved[Len(saved)].query
          /\ saved[i].limit = saved[Len(saved)].limit
          /\ saved[i].offset = saved[Len(saved)].offset
          /\ saved[i].date_saved < saved[Len(saved)].date_saved

\* inside make_api_call no GET has answered 200 yet and one GET was made per
\* attempt; on its return either the last GET answered 200 and its body is the
\* result, or every one of the max_retries GETs answered another status
CallState ==
    /\ gets <= max_retries
    /\ pc = "mac_get" =>
          /\ gets = attempt
          /\ status # 200
          /\ attempt > 0 => status \in ErrorStatuses
    /\ pc = "ss_after" =>
          \/ status = 200 /\ response \in Bodies(corpus) /\ gets = attempt + 1
          \/ status \in ErrorStatuses /\ response = None /\ gets = max_retries

\* a GET is made only inside make_api_call with attempts left; a 200 ends the
\* call with the body; any other status, whichever it is, leads to the same
\* message, sleep and next attempt
CallStep ==
    /\ gets' > gets =>
          (pc = "mac_get" /\ attempt < max_retries /\ gets' = gets + 1)
    /\ (pc = "mac_get" /\ gets' = gets + 1 /\ status' = 200) =>
          (pc' = "ss_after" /\ response' \in Bodies(corpus) /\ attempt' = attempt)
    /\ (pc = "mac_get" /\ gets' = gets + 1 /\ status' # 200) =>
          /\ status' \in ErrorStatuses
          /\ pc' = "mac_get" /\ attempt' = attempt + 1 /\ sleeps' = sleeps + 1
          /\ response' = response
          /\ emitted' = emitted \cup {room}

\* C15: make_api_call returns the body of the first GET answered 200 and makes
\* no GET after it; every other status, 4xx or 5xx, is retried alike; at most
\* max_retries GETs are made.
C15_FirstOkEndsCall == [][CallStep]_vars /\ []CallState

\* the third GET answered 200 with a page, after two that did not
C15_Witness ==
    /\ pc = "ss_after"
    /\ status = 200 /\ gets = max_retries /\ attempt = max_retries - 1
    /\ sleeps = max_retries - 1
    /\ Truthy(response) /\ response.data # << >>

BothStored == \A p \in Procs : w_pc[p] = "done"

\* C16: when two requests have run save_query at the same time, the file is
\* the list one of them loaded plus that request's entry (the last rewrite
\* wins): both new entries are there when one request loaded after the other
\* wrote, and only one of them when both loaded the list before either wrote.
C16_LastRewriteWins ==
    (w_pc # << >> /\ BothStored) =>
        /\ SubSeq(saved, 1, Len(saved0)) = saved0
        /\ \E p \in Procs : saved = Append(w_loaded[p], NewEntry(p))
        /\ (\A p \in Procs : w_loaded[p] = saved0) <=> Len(saved) = Len(saved0) + 1
        /\ (\E p \in Procs : w_loaded[p] # saved0) <=> Len(saved) = Len(saved0) + 2
        /\ Len(saved) = Len(saved0) + 2 =>
              {saved[Len(saved) - 1], saved[Len(saved)]} = {NewEntry(p) : p \in Procs}

\* both requests stored a different page, and the file holds one more entry
\* than before: the entry of one of them is lost
C16_Witness ==
    /\ w_pc # << >> /\ BothStored
    /\ NewEntry(1) # NewEntry(2)
    /\ saved0 # << >>
    /\ Len(saved) = Len(saved0) + 1
    /\ \E p \in Procs : \A i \in 1..Len(saved) : saved[i] # NewEntry(p)

\* the scan of the stored list from entry i on: the first entry with the key
\* gives its result if it is younger than the max age, and None otherwise
RECURSIVE ScanFrom(_, _, _, _, _, _)
ScanFrom(file, i, q, l, o, t) ==
    IF i > Len(file) THEN None
    ELSE IF file[i].query = q /\ file[i].limit = l /\ file[i].offset = o
         THEN IF t - file[i].date_saved < CACHE_MAX_AGE_DAYS THEN file[i].result ELSE None
         ELSE ScanFrom(file, i + 1, q, l, o, t)

\* the entries stored under the key of the current page
KeyEntries(file) == {i \in 1..Len(file) : Matches(file[i], query, limit, offset)}

\* the first entry stored under the key of the current page is too old
FirstEntryExpired ==
    /\ KeyEntries(saved) # {}
    /\ LET first == CHOOSE i \in KeyEntries(saved) : \A j \in KeyEntries(saved) : i <= j
       IN  now - saved[first].date_saved >= CACHE_MAX_AGE_DAYS

\* a later entry under the same key is still valid
LaterEntryValid ==
    \E i \in KeyEntries(saved0) : now - saved0[i].date_saved < CACHE_MAX_AGE_DAYS

\* C17 as stated: when the first entry of the key is expired the lookup returns
\* absent, the page is fetched live and one more entry is appended for it.
C17_ShadowedAlwaysAppends ==
    /\ pc = "mac_get" => saved_result = ScanFrom(saved, 1, query, limit, offset, now)
    /\ (pc = "fp_data" /\ from_cache) =>
          data = ScanFrom(saved, 1, query, limit, offset, now)
    /\ (pc = "fp_data" /\ FirstEntryExpired) =>
          /\ saved_result = None /\ ~from_cache /\ live_gets
          /\ Cardinality(KeyEntries(saved)) = Cardinality(KeyEntries(saved0)) + 1

\* C17 amended: the outcome of a lookup is decided by the first entry with the
\* key; when that entry is expired the lookup returns absent, also with a valid
\* later entry, and the page is fetched live; if the fetch gives a non-empty
\* body one more entry is appended for the key, and none if it gives nothing.
C17_ShadowedFetchedLive ==
    /\ pc = "mac_get" => saved_result = ScanFrom(saved, 1, query, limit, offset, now)
    /\ (pc = "fp_data" /\ from_cache) =>
          data = ScanFrom(saved, 1, query, limit, offset, now)
    /\ (pc = "fp_data" /\ FirstEntryExpired) =>
          /\ saved_result = None /\ ~from_cache /\ live_gets
          /\ Truthy(data) =>
                /\ Cardinality(KeyEntries(saved)) = Cardinality(KeyEntries(saved0)) + 1
                /\ saved[Len(saved)] = Entry(query, limit, offset, data, now)
          /\ ~Truthy(data) =>
                Cardinality(KeyEntries(saved)) = Cardinality(KeyEntries(saved0))

\* the store held an expired and then a valid entry for the page; the page was
\* fetched live all the same and a third entry stored
C17_Witness ==
    /\ pc = "fp_data" /\ FirstEntryExpired /\ LaterEntryValid
    /\ ~from_cache /\ Truthy(data)
    /\ Cardinality(KeyEntries(saved0)) = 2
    /\ Cardinality(KeyEntries(saved)) = 3

\* the papers fetch_papers returned, over the first n fetches, in processing order
RECURSIVE DirectHits(_)
DirectHits(n) == IF n = 0 THEN << >> ELSE DirectHits(n - 1) \o fetched[n].papers

\* paper -> reference for each reference, then citation -> paper for each citation
EdgesOf(p) ==
    [i \in 1..Len(p.references) |-> Edge(p.paperId, p.references[i].paperId)]
        \o [i \in 1..Len(p.citations) |-> Edge(p.citations[i].paperId, p.paperId)]

\* the edges of the first k direct hits: those of each hit that is the first
\* of its paperId, in order
RECURSIVE EdgesUpTo(_, _)
EdgesUpTo(hits, k) ==
    IF k = 0 THEN << >>
    ELSE EdgesUpTo(hits, k - 1)
            \o (IF \E h \in 1..(k - 1) : hits[h].paperId = hits[k].paperId
                THEN << >> ELSE EdgesOf(hits[k]))

\* C18: the edge list is, in processing order, the edges paper -> reference and
\* citation -> paper of each direct hit that is the first of its paperId in the
\* run; a direct hit whose paperId was a direct hit before adds no edge.
C18_EdgesOfFirstHitsOnly ==
    Returned =>
        result.links = EdgesUpTo(DirectHits(Len(fetched)), Len(DirectHits(Len(fetched))))

\* a paper with a reference and two citations is a direct hit of both queries,
\* after a hit without links: its three edges are there once
C18_Witness ==
    /\ Returned
    /\ Len(fetched) = 2 /\ fetched[1].query # fetched[2].query
    /\ fetched[1].papers = << Plain("p1"), Linked("p2") >>
    /\ fetched[2].papers = << Linked("p2") >>
    /\ result.links = << Edge("p2", "p1"), Edge("p3", "p2"), Edge("p1", "p2") >>

\* C19: in the document every edge joins two paperIds of the papers list,
\* every id in queries and queries_more is a paperId of the papers list, and
\* every authorId of a paper record is a key of the authors table.
C19_ReferentialIntegrity ==
    Returned =>
        LET ids == IdSet(result.papers)
        IN  /\ \A i \in 1..Len(result.links) :
                  result.links[i].source \in ids /\ result.links[i].target \in ids
            /\ \A q \in DOMAIN result.queries :
                  \A i \in 1..Len(result.queries[q]) : result.queries[q][i] \in ids
            /\ \A q \in DOMAIN result.queries_more :
                  \A i \in 1..Len(result.queries_more[q]) : result.queries_more[q][i] \in ids
            /\ \A i \in 1..Len(result.papers) :
                  \A j \in 1..Len(result.papers[i].authorIds) :
                      result.papers[i].authorIds[j] \in DOMAIN result.authors

\* a document with edges, with a paper that is in it as a citation only, and
\* with two authors
C19_Witness ==
    /\ Returned
    /\ Len(result.links) = 3
    /\ "p3" \in IdSet(result.papers) /\ "p3" \notin DirectIds
    /\ \E q \in DOMAIN result.queries_more : InList("p3", result.queries_more[q])
    /\ DOMAIN result.authors = {"a1", "a2"}
    /\ \E i \in 1..Len(result.papers) : Len(result.papers[i].authorIds) = 2

\* the pages asked for so far by the current fetch_papers, the one being
\* fetched included
PageRequests ==
    request_count + (IF pc \in {"ss_lookup", "mac_get", "ss_after", "fp_data"} THEN 1 ELSE 0)

\* no more page requests than total_papers, none at all for total_papers <= 0,
\* and no more than max_retries GETs for one page
FetchBounds ==
    /\ PageRequests <= (IF total_papers >= 1 THEN total_papers ELSE 0)
    /\ Len(obtained) <= (IF total_papers >= 1 THEN total_papers ELSE 0)
    /\ total_papers <= 0 => (~live_gets /\ ~missed /\ ~from_cache /\ saved = saved0)
    /\ gets <= max_retries
    /\ pc \in {"fp_loop", "ss_lookup", "mac_get", "ss_after", "fp_data"} =>
          Len(all_papers) >= request_count

\* an iteration of the loop ends the loop or makes all_papers longer
IterationStep ==
    (pc = "fp_data" /\ pc' # "fp_data") =>
        \/ pc' = "fp_return" /\ all_papers' = all_papers
        \/ pc' = "fp_sleep" /\ Len(all_papers') > Len(all_papers)

\* C20: fetch_papers terminates whatever the API and the cache give: every
\* iteration ends the loop or adds a record, so it asks for at most
\* total_papers pages (none when total_papers <= 0), each with at most
\* max_retries = 3 GETs, and it returns.
C20_FetchTerminates ==
    /\ []FetchBounds
    /\ [][IterationStep]_vars
    /\ (pc = "fp_loop") ~> (pc = "gj_fold")

\* fetch_papers is about to return after as many page requests as
\* total_papers allows, the last of which took all three GETs
C20_Witness ==
    /\ pc = "fp_return"
    /\ total_papers = MaxTotalPapers
    /\ request_count = total_papers
    /\ Len(all_papers) = total_papers - 1
    /\ query_idx \in failed

====
